---- MODULE Spec2Model ----
(***************************************************************************)
(* A model of resify's content-normalisation layer: parseLink, renderLink  *)
(* and linkify of main.go, and DateRange of rtype/rtype.go.                *)
(*                                                                         *)
(* Text is a sequence of characters, each character a one-character        *)
(* string.  One more kind of element stands for a run of characters: the   *)
(* string "sha1:" \o t stands for the 40 hexadecimal digits of the SHA-1   *)
(* sum of the text t (SHA-1 is taken to be collision-free on the texts of  *)
(* the model).                                                             *)
(***************************************************************************)
EXTENDS Integers, Sequences, FiniteSets, TLC

VARIABLES escape, formatter, d, call, ret

vars == <<escape, formatter, d, call, ret>>

----------------------------------------------------------------------------
(* Bounds of the model.                                                    *)

\* longest interior of a ((...)) text that ParseLink enumerates
MaxInterior == 4

\* most segments of a text that Linkify enumerates
MaxSegments == 3

----------------------------------------------------------------------------
(* package strings                                                         *)

whitespace == {"\r", "\n", "\t", " "}

HasPrefix(s, prefix) ==
  /\ Len(s) >= Len(prefix)
  /\ SubSeq(s, 1, Len(prefix)) = prefix

HasSuffix(s, suffix) ==
  /\ Len(s) >= Len(suffix)
  /\ SubSeq(s, Len(s) - Len(suffix) + 1, Len(s)) = suffix

RECURSIVE TrimLeft(_, _)
TrimLeft(s, cutset) ==
  IF s # <<>> /\ Head(s) \in cutset THEN TrimLeft(Tail(s), cutset) ELSE s

RECURSIVE TrimRight(_, _)
TrimRight(s, cutset) ==
  IF s # <<>> /\ s[Len(s)] \in cutset
    THEN TrimRight(SubSeq(s, 1, Len(s) - 1), cutset)
    ELSE s

Trim(s, cutset) == TrimRight(TrimLeft(s, cutset), cutset)

\* strings.Index(s, c) for a one-character c, counted from 1; 0 when absent
Index(s, c) ==
  IF \E i \in 1..Len(s) : s[i] = c
    THEN CHOOSE i \in 1..Len(s) : s[i] = c /\ \A j \in 1..(i - 1) : s[j] # c
    ELSE 0

LastIndex(s, c) ==
  IF \E i \in 1..Len(s) : s[i] = c
    THEN CHOOSE i \in 1..Len(s) : s[i] = c /\ \A j \in (i + 1)..Len(s) : s[j] # c
    ELSE 0

\* strings.SplitN(s, sep, 2) for a one-character sep
SplitN2(s, sep) ==
  LET i == Index(s, sep)
  IN IF i = 0 THEN <<s>>
     ELSE <<SubSeq(s, 1, i - 1), SubSeq(s, i + 1, Len(s))>>

\* the Go string of a text, as one TLA+ string
RECURSIVE Str(_)
Str(s) == IF s = <<>> THEN "" ELSE Head(s) \o Str(Tail(s))

----------------------------------------------------------------------------
(* package net/url, as parseLink uses it.  The behaviour is that of the Go *)
(* release the repository's test pins: URL.String() of "f://" is "f://".   *)
(* The characters of the model hold no hexadecimal digit next to a "%",    *)
(* so every "%" is an invalid escape.                                      *)

Letters == {"a", "b", "f", "h"}

NoURL == [Scheme |-> <<>>, Opaque |-> <<>>, Host |-> <<>>, Path |-> <<>>,
          RawQuery |-> <<>>, Fragment |-> <<>>]

\* split(s, c, cutc): the text before the first c, and the text after it
\* (with c itself when cutc is FALSE)
split(s, c, cutc) ==
  LET i == Index(s, c)
  IN IF i = 0 THEN <<s, <<>>>>
     ELSE <<SubSeq(s, 1, i - 1), SubSeq(s, IF cutc THEN i + 1 ELSE i, Len(s))>>

\* getscheme, once the first character that is no letter is known to be
\* at i (0: there is none): [err, scheme, rest]
schemeAt(rawurl, i) ==
  IF i = 0 \/ rawurl[i] # ":"
    THEN [err |-> FALSE, scheme |-> <<>>, rest |-> rawurl]
  ELSE IF i = 1 THEN [err |-> TRUE, scheme |-> <<>>, rest |-> <<>>]
  ELSE [err |-> FALSE, scheme |-> SubSeq(rawurl, 1, i - 1),
        rest |-> SubSeq(rawurl, i + 1, Len(rawurl))]

\* getscheme: [err, scheme, rest]
getscheme(rawurl) ==
  schemeAt(rawurl,
           IF \A i \in 1..Len(rawurl) : rawurl[i] \in Letters THEN 0
           ELSE CHOOSE i \in 1..Len(rawurl) :
                  /\ rawurl[i] \notin Letters
                  /\ \A j \in 1..(i - 1) : rawurl[j] \in Letters)

\* unescape fails on a "%" that two hexadecimal digits do not follow
unescapeFails(s) == \E i \in 1..Len(s) : s[i] = "%"

\* characters a host may hold unescaped
hostChar(c) == c \in Letters \cup {"$", "(", ")", ":"} \/ Len(c) > 1

\* parseHost: the port after the last ":" is empty or digits
parseHostFails(host) ==
  \/ LET i == LastIndex(host, ":") IN i # 0 /\ i # Len(host)
  \/ \E i \in 1..Len(host) : ~hostChar(host[i])

\* url.parse from the authority on: a is <<host, path>>
parseAuthorityPath(u0, authority, a) ==
  IF authority /\ parseHostFails(a[1]) THEN [err |-> TRUE, url |-> NoURL]
  ELSE IF unescapeFails(a[2]) THEN [err |-> TRUE, url |-> NoURL]
  ELSE [err |-> FALSE, url |-> [u0 EXCEPT !.Host = a[1], !.Path = a[2]]]

\* url.parse once scheme and query are split off
parseRest(scheme, rest, query) ==
  IF ~HasPrefix(rest, <<"/">>) /\ scheme # <<>>
    THEN [err |-> FALSE,
          url |-> [NoURL EXCEPT !.Scheme = scheme, !.RawQuery = query,
                                !.Opaque = rest]]
  ELSE IF HasPrefix(rest, <<"/", "/">>)
            /\ (scheme # <<>> \/ ~HasPrefix(rest, <<"/", "/", "/">>))
    THEN parseAuthorityPath([NoURL EXCEPT !.Scheme = scheme, !.RawQuery = query],
                            TRUE, split(SubSeq(rest, 3, Len(rest)), "/", FALSE))
  ELSE parseAuthorityPath([NoURL EXCEPT !.Scheme = scheme, !.RawQuery = query],
                          FALSE, <<<<>>, rest>>)

parseQuery(scheme, q) == parseRest(scheme, q[1], q[2])

parseScheme(g) ==
  IF g.err THEN [err |-> TRUE, url |-> NoURL]
  ELSE parseQuery(g.scheme, split(g.rest, "?", TRUE))

\* url.parse(rawurl, false): [err, url]
parse(rawurl) == parseScheme(getscheme(rawurl))

\* url.Parse once the fragment is split off and the rest parsed
parseFragment(p, frag) ==
  IF p.err \/ frag = <<>> THEN p
  ELSE IF unescapeFails(frag) THEN [err |-> TRUE, url |-> NoURL]
  ELSE [err |-> FALSE, url |-> [p.url EXCEPT !.Fragment = frag]]

urlParseSplit(s) == parseFragment(parse(s[1]), s[2])

\* url.Parse(rawurl): [err, url]
urlParse(rawurl) == urlParseSplit(split(rawurl, "#", TRUE))

\* escape(s, encodeFragment) of one character
escapeFragmentChar(c) ==
  CASE c = " " -> <<"%", "2", "0">>
    [] c = "\t" -> <<"%", "0", "9">>
    [] c = "\n" -> <<"%", "0", "A">>
    [] c = "\r" -> <<"%", "0", "D">>
    [] c = "#" -> <<"%", "2", "3">>
    [] c = "(" -> <<"%", "2", "8">>
    [] c = ")" -> <<"%", "2", "9">>
    [] c = "<" -> <<"%", "3", "C">>
    [] OTHER -> <<c>>

RECURSIVE escapeFragment(_)
escapeFragment(s) ==
  IF s = <<>> THEN <<>>
  ELSE escapeFragmentChar(Head(s)) \o escapeFragment(Tail(s))

\* (*URL).String(); a path is written as parsed (EscapedPath of the
\* empty path, the only one parseLink asks for, is empty)
URLString(u) ==
  (IF u.Scheme # <<>> THEN u.Scheme \o <<":">> ELSE <<>>)
  \o (IF u.Opaque # <<>> THEN u.Opaque
      ELSE (IF u.Scheme # <<>> \/ u.Host # <<>>
              THEN <<"/", "/">> \o u.Host ELSE <<>>)
           \o (IF u.Path # <<>> /\ Head(u.Path) # "/" /\ u.Host # <<>>
                 THEN <<"/">> ELSE <<>>)
           \o u.Path)
  \o (IF u.RawQuery # <<>> THEN <<"?">> \o u.RawQuery ELSE <<>>)
  \o (IF u.Fragment # <<>> THEN <<"#">> \o escapeFragment(u.Fragment) ELSE <<>>)

----------------------------------------------------------------------------
(* main.go: parseLink                                                      *)

NoLink == [URL |-> NoURL, Label |-> <<>>]

errNotALink == "not a link"

errURL == "url parse error"

\* firstNonEmpty(<<a, b, c>>): the first text that is not empty, else c
firstNonEmpty(explicit, hostPath, whole) ==
  IF Len(explicit) # 0 THEN explicit
  ELSE IF Len(hostPath) # 0 THEN hostPath
  ELSE whole

\* labelOf with the first two rules in the other order
labelOfHostFirst(components, u) ==
  firstNonEmpty(u.Host \o u.Path,
                IF Len(components) > 1 THEN Trim(components[2], whitespace)
                ELSE <<>>,
                URLString(u))

\* the label parseLink gives a link whose URL parsed: components[1]
\* trimmed, else host and path, else the whole URL
labelOf(components, u) ==
  firstNonEmpty(IF Len(components) > 1 THEN Trim(components[2], whitespace)
                ELSE <<>>,
                u.Host \o u.Path,
                URLString(u))

\* the separator parseLink splits the interior at
linkSeparator == " "

\* parseLink once the URL token is parsed
linkOf(components, parsed) ==
  IF parsed.err THEN [link |-> NoLink, err |-> errURL]
  ELSE [link |-> [URL |-> parsed.url, Label |-> labelOf(components, parsed.url)],
        err |-> ""]

parseComponents(components) ==
  linkOf(components, urlParse(Trim(components[1], whitespace)))

\* parseLink from the trimmed interior on
parseInterior(interior) ==
  IF Len(interior) = 0 THEN [link |-> NoLink, err |-> errNotALink]
  ELSE parseComponents(SplitN2(interior, linkSeparator))

\* parseLink(p): [link, err], err "" for nil
parseLink(p) ==
  IF ~HasPrefix(p, <<"(", "(">>) \/ ~HasSuffix(p, <<")", ")">>) \/ Len(p) <= 4
    THEN [link |-> NoLink, err |-> errNotALink]
  ELSE parseInterior(Trim(SubSeq(p, 3, Len(p) - 2), whitespace))

----------------------------------------------------------------------------
(* main.go: renderLink and linkify                                         *)

\* html.EscapeString of one character
HTMLEscapeChar(c) ==
  CASE c = "<" -> <<"&", "l", "t", ";">>
    [] c = ">" -> <<"&", "g", "t", ";">>
    [] c = "&" -> <<"&", "a", "m", "p", ";">>
    [] c = "'" -> <<"&", "#", "3", "9", ";">>
    [] c = "\"" -> <<"&", "#", "3", "4", ";">>
    [] OTHER -> <<c>>

RECURSIVE HTMLEscapeString(_)
HTMLEscapeString(s) ==
  IF s = <<>> THEN <<>>
  ELSE HTMLEscapeChar(Head(s)) \o HTMLEscapeString(Tail(s))

nopstring(s) == s

\* applyEscape with the html escaper whatever escape holds
applyEscapeAlways(e, s) == HTMLEscapeString(s)

\* escape(s): the function the package variable escape holds
applyEscape(e, s) ==
  IF e = "HTMLEscapeString" THEN HTMLEscapeString(s) ELSE nopstring(s)

\* the "link" templates of the model: none defined, {{.Label}}, and
\* <{{.Label}}>; the html engine escapes what {{.Label}} writes
LinkTemplates == {"undefined", "label", "anchor"}

\* what the template writes for {{.Label}}
templateLabel(t, link) ==
  IF t.engine = "html" THEN HTMLEscapeString(link.Label) ELSE link.Label

\* t.ExecuteTemplate(&buf, "link", link): [err, out]
ExecuteTemplate(t, link) ==
  CASE t.link = "label" -> [err |-> FALSE, out |-> templateLabel(t, link)]
    [] t.link = "anchor" ->
         [err |-> FALSE, out |-> <<"<">> \o templateLabel(t, link) \o <<">">>]
    [] OTHER -> [err |-> TRUE, out |-> <<>>]

\* renderLink once the template has run
rendered(link, x) ==
  IF x.err THEN [out |-> link.Label, err |-> TRUE, executed |-> TRUE]
  ELSE [out |-> x.out, err |-> FALSE, executed |-> TRUE]

\* renderLink once p is parsed
renderParsed(p, t, parsed) ==
  IF parsed.err # "" THEN [out |-> p, err |-> TRUE, executed |-> FALSE]
  ELSE rendered(parsed.link, ExecuteTemplate(t, parsed.link))

\* renderLink(p, t): [out, err, executed]; executed tells whether
\* t.ExecuteTemplate was called
renderLink(p, t) == renderParsed(p, t, parseLink(p))

\* "$" + hex.EncodeToString(sha1.Sum(p)) + "$"
placeholder(p) == <<"$", "sha1:" \o Str(p), "$">>

\* linkFormat, \(\(.+?\)\): the last position of the match that starts at
\* i, 0 when none starts there ("." matches no newline)
matchEnd(s, i) ==
  LET ends == {j \in (i + 3)..(Len(s) - 1) :
                 /\ s[j] = ")" /\ s[j + 1] = ")"
                 /\ \A k \in (i + 2)..(j - 1) : s[k] # "\n"}
  IN IF i + 1 <= Len(s) /\ s[i] = "(" /\ s[i + 1] = "(" /\ ends # {}
       THEN (CHOOSE j \in ends : \A k \in ends : j <= k) + 1
       ELSE 0

\* the texts handed to ExecuteTemplate so far, after the render r of p
callsAfter(calls, p, r) == IF r.executed THEN Append(calls, p) ELSE calls

\* the function linkify hands to ReplaceAllStringFunc, on a match p that
\* repls does not hold, r being renderLink(p, formatter)
replaceNew(id, p, r, acc) ==
  IF r.err
    THEN [acc EXCEPT !.s = @ \o r.out, !.calls = callsAfter(@, p, r)]
  ELSE [s |-> acc.s \o id, repls |-> acc.repls @@ (id :> r.out),
        calls |-> callsAfter(acc.calls, p, r)]

\* the function linkify hands to ReplaceAllStringFunc, on the match p:
\* acc holds the text written so far, repls and the texts rendered
replaceMatch(p, t, acc) ==
  IF placeholder(p) \in DOMAIN acc.repls
    THEN [acc EXCEPT !.s = @ \o placeholder(p)]
  ELSE replaceNew(placeholder(p), p, renderLink(p, t), acc)

\* one step of ReplaceAllStringFunc at position i, e being matchEnd(s, i):
\* <<the next position, acc>>
replaceStep(s, i, e, t, acc) ==
  IF e = 0 THEN <<i + 1, [acc EXCEPT !.s = Append(@, s[i])]>>
  ELSE <<e + 1, replaceMatch(SubSeq(s, i, e), t, acc)>>

RECURSIVE ReplaceAllStringFunc(_, _, _, _)

replaceFrom(s, step, t) == ReplaceAllStringFunc(s, step[1], t, step[2])

\* linkFormat.ReplaceAllStringFunc(s, ...) from position i on
ReplaceAllStringFunc(s, i, t, acc) ==
  IF i > Len(s) THEN acc
  ELSE replaceFrom(s, replaceStep(s, i, matchEnd(s, i), t, acc), t)

\* strings.Replace(s, old, new, -1) for a non-empty old
RECURSIVE Replace(_, _, _)
Replace(s, old, new) ==
  IF Len(s) < Len(old) THEN s
  ELSE IF SubSeq(s, 1, Len(old)) = old
    THEN new \o Replace(SubSeq(s, Len(old) + 1, Len(s)), old, new)
  ELSE <<Head(s)>> \o Replace(Tail(s), old, new)

\* the orders a range over the map repls may take
Orders(repls) ==
  LET n == Cardinality(DOMAIN repls)
  IN {o \in [1..n -> DOMAIN repls] : \A i, j \in 1..n : o[i] = o[j] => i = j}

\* for id, link := range repls { s = strings.Replace(s, id, link, -1) }
RECURSIVE replaceInOrder(_, _, _)
replaceInOrder(s, repls, order) ==
  IF order = <<>> THEN s
  ELSE replaceInOrder(Replace(s, Head(order), repls[Head(order)]), repls,
                      Tail(order))

\* what linkify(s) has after ReplaceAllStringFunc: [s, repls, calls]
linkifyScan(s, t) ==
  ReplaceAllStringFunc(s, 1, t, [s |-> <<>>, repls |-> <<>>, calls |-> <<>>])

\* linkify after ReplaceAllStringFunc: escape, then the range over repls
\* in the given order
linkifyFinish(e, scan, order) ==
  replaceInOrder(applyEscape(e, scan.s), scan.repls, order)

\* linkify(s), the map repls ranged over in the given order
linkify(s, e, t, order) == linkifyFinish(e, linkifyScan(s, t), order)

----------------------------------------------------------------------------
(* package time, as DateRange uses it.  A time is its fields; the local    *)
(* zone is taken to be UTC, so that every zone abbreviation other than     *)
(* "UTC" names a fabricated zone of offset 0.  The texts of the model hold *)
(* no ".", so no seconds carry a fraction.                                 *)

Digits == <<"0", "1", "2", "3", "4", "5", "6", "7", "8", "9">>

isDigit(s, i) == i <= Len(s) /\ \E n \in 1..10 : Digits[n] = s[i]

digitOf(c) == (CHOOSE n \in 1..10 : Digits[n] = c) - 1

pad2(n) == <<Digits[((n \div 10) % 10) + 1], Digits[(n % 10) + 1]>>

pad4(n) == <<Digits[((n \div 1000) % 10) + 1], Digits[((n \div 100) % 10) + 1]>>
             \o pad2(n)

Upper == {"C", "E", "S", "T", "U"}

\* time.Time{}: January 1, year 1, 00:00:00 UTC
ZeroTime == [year |-> 1, month |-> 1, day |-> 1, hour |-> 0, min |-> 0,
             sec |-> 0, zone |-> <<"U", "T", "C">>]

\* t.IsZero(): the instant is that of ZeroTime (every zone has offset 0)
IsZero(t) == [t EXCEPT !.zone = ZeroTime.zone] = ZeroTime

\* the layouts of rtype.go, each as its chunks
layouts ==
  << <<"2006", "-", "01", "-", "02", " ", "15", ":", "04", ":", "05", " ", "MST">>,
     <<"2006", "-", "01", "-", "02", " ", "15", ":", "04", ":", "05">>,
     <<"2006", "-", "01", "-", "02", " ", "15", ":", "04", " ", "MST">>,
     <<"2006", "-", "01", "-", "02", " ", "15", ":", "04">>,
     <<"2006", "-", "01", "-", "02">>,
     <<"2006", "-", "01">>,
     <<"2006">> >>

\* what t.Format writes for one chunk of a layout
formatChunk(std, t) ==
  CASE std = "2006" -> pad4(t.year)
    [] std = "01" -> pad2(t.month)
    [] std = "02" -> pad2(t.day)
    [] std = "15" -> pad2(t.hour)
    [] std = "04" -> pad2(t.min)
    [] std = "05" -> pad2(t.sec)
    [] std = "MST" -> t.zone
    [] OTHER -> <<std>>

\* t.Format(layout)
RECURSIVE Format(_, _)
Format(t, layout) ==
  IF layout = <<>> THEN <<>>
  ELSE formatChunk(Head(layout), t) \o Format(t, Tail(layout))

BadParse == [ok |-> FALSE, t |-> ZeroTime, rest |-> <<>>]

\* getnum(s, fixed): [ok, n, rest]
getnum(s, fixed) ==
  IF ~isDigit(s, 1) THEN [ok |-> FALSE, n |-> 0, rest |-> s]
  ELSE IF ~isDigit(s, 2)
    THEN [ok |-> ~fixed, n |-> digitOf(s[1]), rest |-> Tail(s)]
  ELSE [ok |-> TRUE, n |-> digitOf(s[1]) * 10 + digitOf(s[2]),
        rest |-> SubSeq(s, 3, Len(s))]

\* a number read by getnum, kept when it lies in lo..hi
numberIn(st, field, g, lo, hi) ==
  IF g.ok /\ g.n >= lo /\ g.n <= hi
    THEN [ok |-> TRUE, t |-> [st.t EXCEPT ![field] = g.n], rest |-> g.rest]
  ELSE BadParse

\* the number of upper-case letters value starts with
RECURSIVE upperRun(_)
upperRun(value) ==
  IF value # <<>> /\ Head(value) \in Upper THEN 1 + upperRun(Tail(value)) ELSE 0

\* parseTimeZone: the length of the abbreviation value starts with, 0 when
\* it starts with none
parseTimeZone(value, nUpper) ==
  CASE nUpper = 3 -> 3
    [] nUpper = 4 /\ value[4] = "T" -> 4
    [] nUpper = 5 /\ value[5] = "T" -> 5
    [] OTHER -> 0

zoneOfLength(st, n) ==
  IF n = 0 THEN BadParse
  ELSE [ok |-> TRUE, t |-> [st.t EXCEPT !.zone = SubSeq(st.rest, 1, n)],
        rest |-> SubSeq(st.rest, n + 1, Len(st.rest))]

\* time.Parse on one chunk of the layout: st is [ok, t, rest], rest the
\* text still to read
parseChunk(std, st) ==
  CASE std = "2006" ->
         IF Len(st.rest) >= 4 /\ \A i \in 1..4 : isDigit(st.rest, i)
           THEN [ok |-> TRUE,
                 t |-> [st.t EXCEPT !.year =
                          digitOf(st.rest[1]) * 1000 + digitOf(st.rest[2]) * 100
                            + digitOf(st.rest[3]) * 10 + digitOf(st.rest[4])],
                 rest |-> SubSeq(st.rest, 5, Len(st.rest))]
         ELSE BadParse
    [] std = "01" -> numberIn(st, "month", getnum(st.rest, TRUE), 1, 12)
    [] std = "02" -> numberIn(st, "day", getnum(st.rest, TRUE), 0, 99)
    [] std = "15" -> numberIn(st, "hour", getnum(st.rest, FALSE), 0, 23)
    [] std = "04" -> numberIn(st, "min", getnum(st.rest, TRUE), 0, 59)
    [] std = "05" -> numberIn(st, "sec", getnum(st.rest, TRUE), 0, 59)
    [] std = "MST" ->
         IF HasPrefix(st.rest, <<"U", "T", "C">>) THEN zoneOfLength(st, 3)
         ELSE zoneOfLength(st, parseTimeZone(st.rest, upperRun(st.rest)))
    [] std = " " ->
         IF st.rest # <<>> /\ Head(st.rest) # " " THEN BadParse
         ELSE [st EXCEPT !.rest = TrimLeft(@, {" "})]
    [] OTHER ->
         IF st.rest # <<>> /\ Head(st.rest) = std
           THEN [st EXCEPT !.rest = Tail(@)]
         ELSE BadParse

RECURSIVE parseChunks(_, _)
parseChunks(layout, st) ==
  IF layout = <<>> \/ ~st.ok THEN st
  ELSE parseChunks(Tail(layout), parseChunk(Head(layout), st))

daysIn(month, year) ==
  CASE month = 2 ->
         IF year % 4 = 0 /\ (year % 100 # 0 \/ year % 400 = 0) THEN 29 ELSE 28
    [] month \in {4, 6, 9, 11} -> 30
    [] OTHER -> 31

\* time.Parse after the layout is read: no text is left, the day exists
parseEnd(st) ==
  IF st.ok /\ st.rest = <<>> /\ st.t.day >= 1
       /\ st.t.day <= daysIn(st.t.month, st.t.year)
    THEN [ok |-> TRUE, t |-> st.t]
  ELSE [ok |-> FALSE, t |-> ZeroTime]

\* time.Parse(layout, value): [ok, t]
timeParse(layout, value) ==
  parseEnd(parseChunks(layout, [ok |-> TRUE, t |-> ZeroTime, rest |-> value]))

----------------------------------------------------------------------------
(* rtype/rtype.go: DateRange                                               *)

\* dateLayouts.Parse(value) from the i-th layout on: [t, layout, err]
RECURSIVE layoutsParseFrom(_, _)
layoutsParseFrom(i, value) ==
  IF i > Len(layouts) THEN [t |-> ZeroTime, layout |-> <<>>, err |-> "parse"]
  ELSE IF timeParse(layouts[i], value).ok
    THEN [t |-> timeParse(layouts[i], value).t, layout |-> layouts[i],
          err |-> "nil"]
  ELSE layoutsParseFrom(i + 1, value)

\* layouts.Parse(value)
layoutsParse(value) == layoutsParseFrom(1, value)

\* an endpoint that an empty text resets (the reading under which parsing
\* again keeps nothing of the range)
endpointReset(value, t, layout) ==
  IF Len(value) > 0 THEN layoutsParse(value)
  ELSE [t |-> ZeroTime, layout |-> <<>>, err |-> "errUndefined"]

\* one endpoint of parseFromTo: the time, layout and error it is left with
endpoint(value, t, layout) ==
  IF Len(value) > 0 THEN layoutsParse(value)
  ELSE [t |-> t, layout |-> layout, err |-> "errUndefined"]

\* the condition under which parseFromTo returns an error: every error
\* counts but not two errUndefined (the reading of the claim C10 drops the
\* exception, that of C4 counts no errUndefined)
parseFailsBothNil(fromErr, toErr) == fromErr # "nil" /\ toErr # "nil"

parseFailsBothParse(fromErr, toErr) == fromErr = "parse" /\ toErr = "parse"

parseFails(fromErr, toErr) ==
  /\ fromErr # "nil"
  /\ toErr # "nil"
  /\ ~(fromErr = "errUndefined" /\ toErr = "errUndefined")

\* parseFromTo once both endpoints are read: [d, err]
parsedRange(f, t) ==
  [d |-> [From |-> f.t, To |-> t.t, fromLayout |-> f.layout,
          toLayout |-> t.layout],
   err |-> parseFails(f.err, t.err)]

\* d.parseFromTo(from, to): [d, err]
parseFromTo(r, from, to) ==
  parsedRange(endpoint(from, r.From, r.fromLayout),
              endpoint(to, r.To, r.toLayout))

\* the layout MarshalYAML writes an endpoint in
marshalLayout(layout) == IF Len(layout) = 0 THEN layouts[5] ELSE layout

marshalEndpoint(t, layout) ==
  IF ~IsZero(t) THEN Format(t, marshalLayout(layout)) ELSE <<>>

marshalWhence(from, to) ==
  [nil |-> Len(from) = 0 /\ Len(to) = 0, From |-> from, To |-> to]

\* d.MarshalYAML(): [nil, From, To]
MarshalYAML(r) ==
  marshalWhence(marshalEndpoint(r.From, r.fromLayout),
                marshalEndpoint(r.To, r.toLayout))

----------------------------------------------------------------------------
(* The state of the program.  escape and formatter are the package-level   *)
(* variables of main.go, d is a DateRange; call is the invocation at hand  *)
(* and ret what it returned.                                               *)

\* DateRange{}
NoRange == [From |-> ZeroTime, To |-> ZeroTime, fromLayout |-> <<>>,
            toLayout |-> <<>>]

NoRet == [none |-> TRUE]

\* the package-level values before main runs: escape = nopstring,
\* formatter = nil
Globals ==
  /\ escape = "nopstring"
  /\ formatter = "nil"

----------------------------------------------------------------------------
(* parseLink applied to a text.                                            *)

\* the characters the interiors are drawn from
ParseAlphabet == {"a", ":", "/", "?", "#", "%", " ", "\t", ")"}

RECURSIVE Texts(_, _)
Texts(alphabet, n) ==
  IF n = 0 THEN {<<>>}
  ELSE LET shorter == Texts(alphabet, n - 1)
       IN shorter \cup {Append(t, c) : t \in {s \in shorter : Len(s) = n - 1},
                                        c \in alphabet}

\* texts of the repository's test table that the interiors do not cover
TableTexts ==
  { <<"n", "o", "t", " ", "a", " ", "l", "i", "n", "k">>,
    <<"(", "(">>, <<")", ")">>,
    <<"(", "(", "f", ":", "/", "/", "h", "/", "a", "?", "a", "#", "a", ")", ")">>,
    <<"(", "(", "f", ":", "/", "/", "h", " ", "a", " ", "b", ")", ")">>,
    <<"(", "(", " ", "f", ":", "/", "/", " ", ")", ")">>,
    <<"(", "(", "f", ":", "/", "/", "h", "%", " ", "a", ")", ")">> }

ParseInputs ==
  {<<"(", "(">> \o t \o <<")", ")">> : t \in Texts(ParseAlphabet, MaxInterior)}
    \cup TableTexts

InitParse ==
  /\ Globals
  /\ d = NoRange
  /\ \E p \in ParseInputs : call = [op |-> "parseLink", p |-> p, done |-> FALSE]
  /\ ret = NoRet

ParseLink ==
  /\ call.op = "parseLink" /\ ~call.done
  /\ call' = [call EXCEPT !.done = TRUE]
  /\ ret' = parseLink(call.p)
  /\ UNCHANGED <<escape, formatter, d>>

SpecParse == InitParse /\ [][ParseLink]_vars

----------------------------------------------------------------------------
(* Claims about parseLink.                                                 *)

\* parseLink has returned without error
Parsed == call.op = "parseLink" /\ call.done /\ ret.err = ""

\* the trimmed interior of a wrapped text
interiorOf(p) == Trim(SubSeq(p, 3, Len(p) - 2), whitespace)

\* the text after the URL token, trimmed: what follows the first separator
remainderOf(p) ==
  LET i == Index(interiorOf(p), linkSeparator)
  IN IF i = 0 THEN <<>>
     ELSE Trim(SubSeq(interiorOf(p), i + 1, Len(interiorOf(p))), whitespace)

hostPathOf(u) == u.Host \o u.Path

Holds(s, c) == \E i \in 1..Len(s) : s[i] = c

C6_LabelNonEmpty == Parsed => Len(ret.link.Label) > 0

\* the first whitespace character of a text, 0 when there is none
firstWhitespace(s) ==
  IF \E i \in 1..Len(s) : s[i] \in whitespace
    THEN CHOOSE i \in 1..Len(s) :
           s[i] \in whitespace /\ \A j \in 1..(i - 1) : s[j] \notin whitespace
    ELSE 0

\* C9: the interior is split at its first run of whitespace, whichever
\* character it is made of: the URL is that of the text before the run and
\* the label is the trimmed text after it.
C9_SplitAtWhitespace ==
  (Parsed /\ firstWhitespace(interiorOf(call.p)) # 0) =>
    LET t == interiorOf(call.p)
        i == firstWhitespace(t)
    IN /\ ret.link.URL = urlParse(SubSeq(t, 1, i - 1)).url
       /\ ret.link.Label = Trim(SubSeq(t, i + 1, Len(t)), whitespace)

----------------------------------------------------------------------------
(* linkify applied to a text, and to its own result.                       *)

\* the match ((b)) and its placeholder
LinkB == <<"(", "(", "b", ")", ")">>

\* what the texts are made of: links that render, one whose label is the
\* placeholder of another, texts that do not parse, prose the html escaper
\* rewrites, and a placeholder written out as prose
Segments ==
  { LinkB,
    <<"(", "(">> \o placeholder(LinkB) \o <<")", ")">>,
    <<"(", "(", "a", " ", "<", ")", ")">>,
    <<"(", "(", "%", ")", ")">>,
    placeholder(LinkB),
    <<"<">>,
    <<" ">> }

RECURSIVE Concat(_)
Concat(ss) == IF ss = <<>> THEN <<>> ELSE Head(ss) \o Concat(Tail(ss))

LinkifyInputs ==
  {Concat(ss) : ss \in UNION {[1..n -> Segments] : n \in 0..MaxSegments}}

\* main has parsed the templates: with -text, escape stays nopstring and
\* formatter is a text template; otherwise escape is HTMLEscapeString and
\* formatter an html template
InitLinkify ==
  /\ \E useText \in BOOLEAN, link \in LinkTemplates :
       /\ escape = IF useText THEN "nopstring" ELSE "HTMLEscapeString"
       /\ formatter = [engine |-> IF useText THEN "text" ELSE "html",
                       link |-> link]
  /\ d = NoRange
  /\ \E s \in LinkifyInputs :
       call = [op |-> "linkify", s |-> s, done |-> FALSE, first |-> <<>>,
               again |-> FALSE]
  /\ ret = NoRet

Linkify ==
  /\ call.op = "linkify" /\ ~call.done
  /\ call' = [call EXCEPT !.done = TRUE]
  /\ \E scan \in {linkifyScan(call.s, formatter)} :
       \E order \in Orders(scan.repls) :
         ret' = [out |-> linkifyFinish(escape, scan, order),
                 calls |-> scan.calls]
  /\ UNCHANGED <<escape, formatter, d>>

\* the caller hands the result of linkify to linkify
Reapply ==
  /\ call.op = "linkify" /\ call.done /\ ~call.again
  /\ call' = [op |-> "linkify", s |-> ret.out, done |-> FALSE,
              first |-> call.s, again |-> TRUE]
  /\ ret' = NoRet
  /\ UNCHANGED <<escape, formatter, d>>

NextLinkify == Linkify \/ Reapply

SpecLinkify == InitLinkify /\ [][NextLinkify]_vars

----------------------------------------------------------------------------
(* Claims about linkify.                                                   *)

\* linkify has returned
Linkified == call.op = "linkify" /\ call.done

\* no match of linkFormat in s
NoMatch(s) == \A i \in 1..Len(s) : matchEnd(s, i) = 0

\* what a match p is to become: the template's output as it is when p
\* parses and renders, and otherwise what renderLink falls back to, escaped
expectedMatch(r, e) == IF r.err THEN applyEscape(e, r.out) ELSE r.out

\* what the text from position i on is to become: every character outside
\* a match as escape writes it, every match as expectedMatch tells
RECURSIVE expectedFrom(_, _, _, _)
expectedFrom(s, i, e, t) ==
  IF i > Len(s) THEN <<>>
  ELSE IF matchEnd(s, i) = 0
    THEN applyEscape(e, <<s[i]>>) \o expectedFrom(s, i + 1, e, t)
  ELSE expectedMatch(renderLink(SubSeq(s, i, matchEnd(s, i)), t), e)
         \o expectedFrom(s, matchEnd(s, i) + 1, e, t)

\* C1: in the result every character outside a match stands as escape
\* writes it, and the template's output for every match that parses and
\* renders stands unescaped where the match stood.
C1_EscapedOutsideVerbatimInside ==
  Linkified => ret.out = expectedFrom(call.s, 1, escape, formatter)

\* C2: within one call of linkify no match text is handed to
\* ExecuteTemplate more than once, whether the render succeeds or fails.
C2_RenderedOnce ==
  Linkified =>
    \A i, j \in DOMAIN ret.calls : ret.calls[i] = ret.calls[j] => i = j

\* C7: linkify of a result of linkify that holds no match is that result.
C7_Idempotent ==
  (Linkified /\ call.again /\ NoMatch(call.s)) => ret.out = call.s

\* C7, amended: with escape the identity (text output), linkify of a
\* result of linkify that holds no match is that result.
C7_IdempotentText ==
  (Linkified /\ call.again /\ NoMatch(call.s) /\ escape = "nopstring")
    => ret.out = call.s

\* linkify ran in text mode on a text with a match and with a character
\* the html escaper rewrites, and ran again on its result, which holds no
\* match
C7_Witness ==
  /\ Linkified /\ call.again
  /\ escape = "nopstring"
  /\ ~NoMatch(call.first)
  /\ Holds(call.first, "<")
  /\ call.s # call.first
  /\ NoMatch(call.s)
  /\ ret.out = call.s

\* C8: the result does not depend on the order in which the range over
\* repls replaces the placeholders.
C8_OrderIrrelevant ==
  Linkified =>
    \A order \in Orders(linkifyScan(call.s, formatter).repls) :
      linkifyFinish(escape, linkifyScan(call.s, formatter), order) = ret.out

----------------------------------------------------------------------------
(* DateRange: construction, parsing again and marshalling.                 *)

\* the times the texts are written from
Times ==
  { [year |-> 2012, month |-> 8, day |-> 2, hour |-> 15, min |-> 4, sec |-> 5,
     zone |-> <<"E", "S", "T">>],
    ZeroTime }

\* every text a time of the model is written as under a layout
Written == {Format(t, layouts[i]) : t \in Times, i \in 1..Len(layouts)}

\* texts no layout matches
Unparseable == {<<"x">>, <<"2", "0", "1", "2", "-", "1", "3">>}

DateInputs == Written \cup Unparseable \cup {<<>>}

InitDate ==
  /\ Globals
  /\ d = NoRange
  /\ call = [op |-> "none"]
  /\ ret = NoRet

\* d, err := NewDateRange(from, to)
NewDateRange ==
  \E from \in DateInputs, to \in DateInputs :
    \E r \in {parseFromTo(NoRange, from, to)} :
      /\ call.op = "none"
      /\ call' = [op |-> "NewDateRange", from |-> from, to |-> to]
      /\ d' = r.d
      /\ ret' = [err |-> r.err]
      /\ UNCHANGED <<escape, formatter>>

\* the texts a range is parsed again from
AgainInputs ==
  {<<>>, <<"x">>, Format(ZeroTime, layouts[7]), <<"2", "0", "1", "0", "-", "0", "8">>}

\* d.UnmarshalYAML on a range that exists, any number of times: when the
\* unmarshal callback fails its error is returned and d is not touched,
\* otherwise d.parseFromTo(whence.From, whence.To)
UnmarshalYAML ==
  /\ call.op \in {"NewDateRange", "UnmarshalYAML", "unmarshal"}
  /\ \/ /\ call' = [op |-> "unmarshal", before |-> d]
        /\ ret' = [err |-> TRUE]
        /\ UNCHANGED <<escape, formatter, d>>
     \/ \E from \in AgainInputs, to \in AgainInputs :
          \E r \in {parseFromTo(d, from, to)} :
            /\ call' = [op |-> "UnmarshalYAML", from |-> from, to |-> to,
                        before |-> d]
            /\ d' = r.d
            /\ ret' = [err |-> r.err]
            /\ UNCHANGED <<escape, formatter>>

\* d.MarshalYAML() right after a range is constructed
Marshal ==
  /\ call.op = "NewDateRange"
  /\ call' = [op |-> "MarshalYAML", from |-> call.from, to |-> call.to,
              err |-> ret.err]
  /\ ret' = MarshalYAML(d)
  /\ UNCHANGED <<escape, formatter, d>>

NextDate == NewDateRange \/ UnmarshalYAML \/ Marshal

SpecDate == InitDate /\ [][NextDate]_vars

----------------------------------------------------------------------------
(* Claims about DateRange.                                                 *)

\* parseFromTo has returned
Constructed == call.op \in {"NewDateRange", "UnmarshalYAML"}

\* some layout matches the text
Matches(v) == \E i \in 1..Len(layouts) : timeParse(layouts[i], v).ok

\* C3: a range built from a text written under a layout is marshalled to
\* that very text, for either endpoint: never under another layout, never
\* dropped.
C3_RoundTrip ==
  call.op = "MarshalYAML" =>
    /\ call.from \in Written => ret.From = call.from
    /\ call.to \in Written => ret.To = call.to

\* C4: construction returns an error only if both texts are non-empty and
\* no layout matches either; with one text empty and the other matching
\* no layout it returns none.
C4_ErrorOnlyIfBothFail ==
  (Constructed /\ ret.err) =>
    /\ call.from # <<>> /\ ~Matches(call.from)
    /\ call.to # <<>> /\ ~Matches(call.to)

\* C4, amended: construction returns an error exactly when no layout
\* matches either text and the texts are not both empty; with one text
\* empty and the other matching no layout it returns an error.
C4_ErrorIffNoneParses ==
  Constructed =>
    (ret.err <=> /\ ~Matches(call.from)
                 /\ ~Matches(call.to)
                 /\ (call.from # <<>> \/ call.to # <<>>))

\* one text is empty, no layout matches the other, and construction has
\* returned an error
C4_Witness ==
  /\ Constructed
  /\ call.from = <<>>
  /\ call.to # <<>> /\ ~Matches(call.to)
  /\ ret.err

\* C10: construction from two empty texts returns an error.
C10_BothEmptyFails ==
  (Constructed /\ call.from = <<>> /\ call.to = <<>>) => ret.err

\* C10, amended: construction from two empty texts returns no error, and
\* leaves the range as it was (both endpoints unset in a new range).
C10_BothEmptySucceeds ==
  (Constructed /\ call.from = <<>> /\ call.to = <<>>) =>
    /\ ~ret.err
    /\ d = IF call.op = "NewDateRange" THEN NoRange ELSE call.before

\* a new range has been constructed from two empty texts
C10_Witness ==
  /\ call.op = "NewDateRange"
  /\ call.from = <<>> /\ call.to = <<>>
  /\ ~ret.err
  /\ IsZero(d.From) /\ IsZero(d.To)

\* the range before the call: a new one under NewDateRange
Before == IF call.op = "NewDateRange" THEN NoRange ELSE call.before

\* what a call of parseFromTo given the text v leaves in an endpoint that
\* held the time t0 under the layout l0, as the claim C11 states it: t0
\* and l0 for the empty text, the time parsed under the first layout that
\* matches v, the zero time and the empty layout when none matches
FrameOf(v, t0, l0, t, l) ==
  IF v = <<>> THEN t = t0 /\ l = l0
  ELSE IF Matches(v)
    THEN \E i \in 1..Len(layouts) :
           /\ timeParse(layouts[i], v).ok
           /\ \A j \in 1..(i - 1) : ~timeParse(layouts[j], v).ok
           /\ t = timeParse(layouts[i], v).t
           /\ l = layouts[i]
  ELSE t = ZeroTime /\ l = <<>>

\* C11: in any sequence of calls of parseFromTo on one range, a call given
\* an empty text for an endpoint leaves its time and layout as they were,
\* and a call given a non-empty text overwrites them (the parsed time and
\* the matching layout, or the zero time and the empty layout), whether or
\* not the call returns an error.
C11_FrameOfReparse ==
  Constructed =>
    /\ FrameOf(call.from, Before.From, Before.fromLayout, d.From,
               d.fromLayout)
    /\ FrameOf(call.to, Before.To, Before.toLayout, d.To, d.toLayout)

\* a range with both endpoints set has been parsed again from an empty
\* text and a text no layout matches: the call has returned an error, the
\* first endpoint is as it was and the second is reset
C11_Witness ==
  /\ call.op = "UnmarshalYAML"
  /\ call.from = <<>>
  /\ call.to # <<>> /\ ~Matches(call.to)
  /\ ret.err
  /\ ~IsZero(call.before.From) /\ ~IsZero(call.before.To)
  /\ d.From = call.before.From /\ d.fromLayout = call.before.fromLayout
  /\ IsZero(d.To) /\ d.toLayout = <<>>

====
